---------------------------- MODULE Spec2Model ----------------------------
(***************************************************************************)
(* A model of the notebook fitting_galaxy_profiles.ipynb: the Hubble       *)
(* surface-brightness model, the synthetic data generator, the binned      *)
(* Poisson negative log likelihood and the construction of the minimizer.  *)
(*                                                                         *)
(* Floating-point values are extended rationals: a finite value n/d in     *)
(* lowest terms, or one of the IEEE specials nan, +inf, -inf, which numpy  *)
(* produces (with a warning, not an exception) on division by zero and on  *)
(* the logarithm of a non-positive number.  sqrt and log, whose results    *)
(* are not rational, are rounded down to a fixed number of fractional bits.*)
(***************************************************************************)
EXTENDS Integers, Sequences, FiniteSets, TLC

(***************************************************************************)
(* Bounds of the model.                                                    *)
(***************************************************************************)
\* The grid has NX bins along x, centred on 0 (the notebook: 400).
NX == 2
\* The grid has NY bins along y, centred on 0 (the notebook: 320).
NY == 2
\* A Poisson draw yields at most MaxEvents events over the whole grid.
MaxEvents == 2
\* Probed parameters are the multiples k/2 of one half with |k| <= PMax.
PMax == 1
\* Probed points have coordinates k/2 with |k| <= CMax.
CMax == 2
\* sqrt keeps SqrtBits fractional bits.
SqrtBits == 3
\* log and the terms of the likelihood keep LogBits fractional bits.
LogBits == 4

(***************************************************************************)
(* Extended rational arithmetic (numpy float semantics).                   *)
(***************************************************************************)
Abs(a) == IF a < 0 THEN -a ELSE a

RECURSIVE GCD(_, _)
GCD(a, b) == IF b = 0 THEN a ELSE GCD(b, a % b)

Pow2(k) == 2 ^ k

\* The finite value n/d (d # 0), in lowest terms with a positive denominator.
Fin(n, d) ==
    LET s == IF d < 0 THEN -1 ELSE 1
        g == GCD(Abs(n), Abs(d))
    IN  [k |-> "fin", n |-> (s * n) \div g, d |-> (s * d) \div g]

NaN == [k |-> "nan", n |-> 0, d |-> 1]
PInf == [k |-> "pinf", n |-> 0, d |-> 1]
NInf == [k |-> "ninf", n |-> 0, d |-> 1]

Int2F(i) == Fin(i, 1)
Zero == Int2F(0)
One == Int2F(1)

IsFinite(a) == a.k = "fin"
IsInf(a) == a.k \in {"pinf", "ninf"}

\* -1, 0 or 1; nan has no sign and is never asked for one.
Sign(a) ==
    CASE a.k = "pinf" -> 1
      [] a.k = "ninf" -> -1
      [] OTHER -> IF a.n > 0 THEN 1 ELSE IF a.n < 0 THEN -1 ELSE 0

InfOf(s) == IF s < 0 THEN NInf ELSE PInf

FNeg(a) ==
    CASE a.k = "nan" -> NaN
      [] a.k = "pinf" -> NInf
      [] a.k = "ninf" -> PInf
      [] OTHER -> Fin(-a.n, a.d)

FAdd(a, b) ==
    CASE a.k = "nan" \/ b.k = "nan" -> NaN
      [] IsInf(a) /\ IsInf(b) -> IF a.k = b.k THEN a ELSE NaN
      [] IsInf(a) -> a
      [] IsInf(b) -> b
      [] OTHER -> Fin(a.n * b.d + b.n * a.d, a.d * b.d)

FSub(a, b) == FAdd(a, FNeg(b))

FMul(a, b) ==
    CASE a.k = "nan" \/ b.k = "nan" -> NaN
      [] IsInf(a) \/ IsInf(b) ->
            IF Sign(a) * Sign(b) = 0 THEN NaN ELSE InfOf(Sign(a) * Sign(b))
      [] OTHER -> Fin(a.n * b.n, a.d * b.d)

\* Division as numpy does it: x/0 is +-inf, 0/0 and inf/inf are nan.
FDiv(a, b) ==
    CASE a.k = "nan" \/ b.k = "nan" -> NaN
      [] IsInf(a) /\ IsInf(b) -> NaN
      [] IsInf(a) -> InfOf(Sign(a) * (IF Sign(b) < 0 THEN -1 ELSE 1))
      [] IsInf(b) -> Zero
      [] b.n = 0 -> IF a.n = 0 THEN NaN ELSE InfOf(Sign(a))
      [] OTHER -> Fin(a.n * b.d, a.d * b.n)

\* n1 / d1 > n2 / d2 for d1, d2 > 0, by whole parts and then by the
\* reciprocals of the remainders, so that no product is formed.
RECURSIVE FracGt(_, _, _, _)
FracGt(n1, d1, n2, d2) ==
    LET q1 == n1 \div d1
        q2 == n2 \div d2
        r1 == n1 % d1
        r2 == n2 % d2
    IN  IF q1 # q2 THEN q1 > q2
        ELSE IF r1 = 0 THEN FALSE
        ELSE IF r2 = 0 THEN TRUE
        ELSE FracGt(d2, r2, d1, r1)

\* a > b and a >= b; every comparison with nan is false.
FGt(a, b) ==
    CASE a.k = "nan" \/ b.k = "nan" -> FALSE
      [] a.k = "pinf" -> b.k # "pinf"
      [] a.k = "ninf" -> FALSE
      [] b.k = "pinf" -> FALSE
      [] b.k = "ninf" -> TRUE
      [] OTHER -> FracGt(a.n, a.d, b.n, b.d)

FGe(a, b) ==
    CASE a.k = "nan" \/ b.k = "nan" -> FALSE
      [] OTHER -> a = b \/ FGt(a, b)

\* The largest k with k * k <= n.
RECURSIVE ISqrtFrom(_, _)
ISqrtFrom(n, k) == IF (k + 1) * (k + 1) > n THEN k ELSE ISqrtFrom(n, k + 1)
ISqrt(n) == ISqrtFrom(n, 0)

\* floor(n * m / d) for n, m >= 0 and d > 0, without forming n * m.
MulDiv(n, m, d) == (n \div d) * m + ((n % d) * m) \div d

\* The value rounded down to `bits` fractional bits.
FRoundTo(a, bits) ==
    IF a.k # "fin" THEN a
    ELSE LET s == Pow2(bits)
             q == a.n \div a.d
             r == a.n % a.d
         IN  Fin(q * s + (r * s) \div a.d, s)

\* np.sqrt: nan for a negative argument.
FSqrt(a) ==
    CASE a.k = "nan" \/ a.k = "ninf" -> NaN
      [] a.k = "pinf" -> PInf
      [] a.n < 0 -> NaN
      [] OTHER ->
            LET s == Pow2(SqrtBits)
            IN  Fin(ISqrt(MulDiv(a.n, s * s, a.d)), s)

\* floor(log2(n/d)) for n, d > 0.
RECURSIVE ILog2(_, _)
ILog2(n, d) ==
    IF n >= 2 * d THEN 1 + ILog2(n, 2 * d)
    ELSE IF n < d THEN ILog2(2 * n, d) - 1
    ELSE 0

\* The fractional bits of log2 of a mantissa m / 2^p in [1, 2), by squaring.
RECURSIVE Log2Frac(_, _, _)
Log2Frac(m, p, bits) ==
    IF bits = 0 THEN 0
    ELSE LET sq == (m * m) \div Pow2(p)
         IN  IF sq >= 2 * Pow2(p)
             THEN Pow2(bits - 1) + Log2Frac(sq \div 2, p, bits - 1)
             ELSE Log2Frac(sq, p, bits - 1)

\* floor(log2(n/d) * 2^bits), up to the truncation of the mantissa.
Log2Fix(n, d, bits) ==
    LET e == ILog2(n, d)
        nn == IF e < 0 THEN n * Pow2(-e) ELSE n
        dd == IF e > 0 THEN d * Pow2(e) ELSE d
        p == bits + 2
        m == MulDiv(nn, Pow2(p), dd)
    IN  e * Pow2(bits) + Log2Frac(m, p, bits)

\* np.log: -inf at 0, nan below 0; ln x = log2 x * ln 2, ln 2 = 45426/65536.
FLog(a) ==
    CASE a.k = "nan" \/ a.k = "ninf" -> NaN
      [] a.k = "pinf" -> PInf
      [] a.n < 0 -> NaN
      [] a.n = 0 -> NInf
      [] OTHER ->
            FRoundTo(Fin(Log2Fix(a.n, a.d, LogBits) * 45426,
                         Pow2(LogBits) * 65536), LogBits)

(***************************************************************************)
(* The model function (notebook cell 3).                                   *)
(***************************************************************************)
\* A parameter vector, in the order of the signature.
Pars(x0, y0, s0, r0, sb) ==
    [x_0 |-> x0, y_0 |-> y0, sigma_0 |-> s0, r_0 |-> r0,
     sigma_background |-> sb]

\* r = np.sqrt((x - x_0) ** 2 + (y - y_0) ** 2)
radius(x, y, p) ==
    LET dx == FSub(x, p.x_0)
        dy == FSub(y, p.y_0)
    IN  FSqrt(FAdd(FMul(dx, dx), FMul(dy, dy)))

\* Mutants of model: the 1 + of the denominator dropped; r / r_0 subtracted
\* from 1; the profile subtracted from the background.
model_no_one(x, y, p) ==
    LET b == FDiv(radius(x, y, p), p.r_0)
    IN  FAdd(p.sigma_background, FDiv(p.sigma_0, FMul(b, b)))
model_minus(x, y, p) ==
    LET b == FSub(One, FDiv(radius(x, y, p), p.r_0))
    IN  FAdd(p.sigma_background, FDiv(p.sigma_0, FMul(b, b)))
model_bg_minus(x, y, p) ==
    LET b == FAdd(One, FDiv(radius(x, y, p), p.r_0))
    IN  FSub(p.sigma_background, FDiv(p.sigma_0, FMul(b, b)))

\* sigma_background + sigma_0 / (1 + r / r_0) ** 2
model(x, y, p) ==
    LET r == radius(x, y, p)
        b == FAdd(One, FDiv(r, p.r_0))
    IN  FAdd(p.sigma_background, FDiv(p.sigma_0, FMul(b, b)))

\* model applied elementwise to two arrays of the same shape.
model_grid(xs, ys, p) ==
    [i \in DOMAIN xs |-> [j \in DOMAIN xs[i] |-> model(xs[i][j], ys[i][j], p)]]

(***************************************************************************)
(* The notebook's constants (cells 4 and 5).                               *)
(***************************************************************************)
x_0 == 0
y_0 == 0
r_0 == 10
sigma_0 == 100
sigma_background == 10
true_pars ==
    Pars(Int2F(x_0), Int2F(y_0), Int2F(sigma_0), Int2F(r_0),
         Int2F(sigma_background))

binsize == Fin(1, 2)
\* The notebook's window is [-100, 100) x [-80, 80), 400 x 320 bins; the
\* model keeps it centred on the origin, NX x NY bins wide.
x_max == FDiv(FMul(Int2F(NX), binsize), Int2F(2))
x_min == FNeg(x_max)
y_max == FDiv(FMul(Int2F(NY), binsize), Int2F(2))
y_min == FNeg(y_max)
\* The bounds of the jitter, np.random.uniform(-0.5, 0.5, size).
jitter_low == Fin(-1, 2)
jitter_high == Fin(1, 2)

(***************************************************************************)
(* numpy array operations.                                                 *)
(***************************************************************************)
\* The least integer >= n/d.
Ceil(a) == -((-a.n) \div a.d)

\* np.arange(start, stop, step): start + k * step for every k with
\* start + k * step < stop.
arange(start, stop, step) ==
    LET len == Ceil(FDiv(FSub(stop, start), step))
    IN  [k \in 1..(IF len < 0 THEN 0 ELSE len) |->
            FAdd(start, FMul(Int2F(k - 1), step))]

\* np.meshgrid(xs, ys): two arrays of shape (len(ys), len(xs)).
meshgrid(xs, ys) ==
    [X |-> [i \in DOMAIN ys |-> xs],
     Y |-> [i \in DOMAIN ys |-> [j \in DOMAIN xs |-> ys[i]]]]

\* ndarray.flatten(): the rows one after the other.
RECURSIVE flatten(_)
flatten(a) == IF a = <<>> THEN <<>> ELSE Head(a) \o flatten(Tail(a))

RECURSIVE repeat_flat(_, _)
repeat_flat(a, reps) ==
    IF a = <<>> THEN <<>>
    ELSE [i \in 1..Head(reps) |-> Head(a)] \o repeat_flat(Tail(a), Tail(reps))

\* Mutant of repeat: an element with no repetitions is kept once.
repeat_at_least_once(a, reps) ==
    repeat_flat(flatten(a),
                [i \in DOMAIN reps |-> IF reps[i] = 0 THEN 1 ELSE reps[i]])

\* ndarray.repeat(reps): the flattened array, element i repeated reps[i] times.
repeat(a, reps) == repeat_flat(flatten(a), reps)

RECURSIVE SumSeq(_)
SumSeq(s) == IF s = <<>> THEN 0 ELSE Head(s) + SumSeq(Tail(s))

\* ndarray.sum() of an array of floats.
RECURSIVE FSumSeq(_)
FSumSeq(s) == IF s = <<>> THEN Zero ELSE FAdd(Head(s), FSumSeq(Tail(s)))
fsum(a) == FSumSeq(flatten(a))

\* The integer arrays of the shape of lam with at most MaxEvents events in
\* all, built from the sorted tuples of the cells the events fall in.
CountArrays(lam) ==
    LET ny == Len(lam)
        nx == Len(lam[1])
        cells == 1..(ny * nx)
        hits == UNION {{h \in [1..n -> cells] :
                          \A i \in 1..(n - 1) : h[i] <= h[i + 1]} :
                       n \in 0..MaxEvents}
        arr(h) == [i \in 1..ny |-> [j \in 1..nx |->
                     Cardinality({e \in DOMAIN h : h[e] = (i - 1) * nx + j})]]
    IN  {arr(h) : h \in hits}

\* np.random.poisson(lam): needs every mean to be a number >= 0; a cell of
\* mean 0 draws 0, a cell of positive mean draws any count.
poisson(lam) ==
    IF \A i \in DOMAIN lam : \A j \in DOMAIN lam[i] : FGe(lam[i][j], Zero)
    THEN {c \in CountArrays(lam) :
            \A i \in DOMAIN lam : \A j \in DOMAIN lam[i] :
                lam[i][j] = Zero => c[i][j] = 0}
    ELSE {}

\* The samples a draw from [low, high) is taken from: the point an eighth of
\* the way up from low, and the midpoint.
LowSample(low, high) == FAdd(low, FDiv(FSub(high, low), Int2F(8)))
UniformSamples(low, high) ==
    {LowSample(low, high), FDiv(FAdd(low, high), Int2F(2))}

\* np.random.uniform(low, high, size)
uniform(low, high, size) == [1..size -> UniformSamples(low, high)]

\* a += u, elementwise
iadd(a, u) == [i \in DOMAIN a |-> FAdd(a[i], u[i])]

(***************************************************************************)
(* The fit statistic (notebook cell 6).  binned_nll reads the globals      *)
(* xbin, ybin and counts; g is the namespace it runs in, returned with the *)
(* value so that anything the call did to the globals shows.               *)
(***************************************************************************)
\* -x * np.log(mu) + mu, carried with LogBits fractional bits.
poisson_term(x, mu) ==
    FRoundTo(FAdd(FMul(FNeg(Int2F(x)), FLog(mu)), mu), LogBits)

\* Mutant of where_positive: the test is mu >= 0.
where_non_negative(mu, x) ==
    IF FGe(mu, Zero) THEN poisson_term(x, mu) ELSE One

\* One element of np.where(mu > 0, -x * np.log(mu) + mu, 1).
where_positive(mu, x) == IF FGt(mu, Zero) THEN poisson_term(x, mu) ELSE One

\* Mutant of binned_nll: -x is formed in place, in the array x aliases.
binned_nll_in_place(g, p) ==
    LET mu == model_grid(g.xbin, g.ybin, p)
        x == [i \in DOMAIN g.counts |-> [j \in DOMAIN g.counts[i] |->
                 -g.counts[i][j]]]
        nll == [i \in DOMAIN mu |-> [j \in DOMAIN mu[i] |->
                   IF FGt(mu[i][j], Zero)
                   THEN FRoundTo(FAdd(FMul(Int2F(x[i][j]), FLog(mu[i][j])),
                                      mu[i][j]), LogBits)
                   ELSE One]]
    IN  [ret |-> fsum(nll), g |-> [g EXCEPT !.counts = x]]

binned_nll(g, p) ==
    LET mu == model_grid(g.xbin, g.ybin, p)
        x == g.counts
        nll == [i \in DOMAIN mu |-> [j \in DOMAIN mu[i] |->
                   where_positive(mu[i][j], x[i][j])]]
    IN  [ret |-> fsum(nll), g |-> g]

(***************************************************************************)
(* The minimizer's construction and display (notebook cells 7 to 10).      *)
(***************************************************************************)
\* The parameter names iminuit reads off the signature of binned_nll.
ParNames == {"x_0", "y_0", "sigma_0", "r_0", "sigma_background"}

start_values ==
    [n \in ParNames |-> true_pars[n]]
start_errors ==
    [n \in {"error_x_0", "error_y_0", "error_sigma_background"} |->
        Fin(1, 100)]
fixed_parameters ==
    [n \in {"fix_r_0", "fix_sigma_background"} |-> TRUE]

\* dict(a.items() + b.items()): a key of both takes b's value.
dict_merge(a, b) == b @@ a

pars == dict_merge(dict_merge(start_values, start_errors), fixed_parameters)

\* kw[key] when the keyword was given, else the default.
kwarg(kw, key, default) == IF key \in DOMAIN kw THEN kw[key] ELSE default

\* Mutant of Minuit: the fix_<name> keywords are not read.
Minuit_no_fix(kw) ==
    [values |-> [n \in ParNames |-> kwarg(kw, n, Zero)],
     errors |-> [n \in ParNames |-> kwarg(kw, "error_" \o n, One)],
     fixed  |-> [n \in ParNames |-> FALSE],
     limits |-> [n \in ParNames |-> kwarg(kw, "limit_" \o n, "None")]]

\* iminuit.Minuit(fcn, **kw): per parameter a start value (default 0), a step
\* error_<name> (default 1), a flag fix_<name> (default False) and limits
\* limit_<name> (default None).  Nothing is evaluated.
Minuit(kw) ==
    [values |-> [n \in ParNames |-> kwarg(kw, n, Zero)],
     errors |-> [n \in ParNames |-> kwarg(kw, "error_" \o n, One)],
     fixed  |-> [n \in ParNames |-> kwarg(kw, "fix_" \o n, FALSE)],
     limits |-> [n \in ParNames |-> kwarg(kw, "limit_" \o n, "None")]]

\* The table print_param and print_initial_param display.
param_table(m) ==
    [n \in ParNames |->
        [value |-> m.values[n], parab_error |-> m.errors[n],
         minos_minus |-> Zero, minos_plus |-> Zero,
         limit |-> m.limits[n], fixed |-> m.fixed[n]]]

\* minuit.fitarg: one dict of the values and of the error_, fix_ and limit_
\* keywords of every parameter.
fitarg(m) ==
    LET keyed(prefix, f) ==
            [key \in {prefix \o n : n \in ParNames} |->
                f[CHOOSE n \in ParNames : key = prefix \o n]]
    IN  m.values @@ keyed("error_", m.errors) @@ keyed("fix_", m.fixed)
            @@ keyed("limit_", m.limits)

(***************************************************************************)
(* State.                                                                  *)
(***************************************************************************)
VARIABLES
    pc,       \* the statement the notebook runs next
    xbin,     \* the grid's x coordinates, one row per y
    ybin,     \* the grid's y coordinates
    counts,   \* the simulated counts, of the grid's shape
    xx,       \* the events' x positions
    yy,       \* the events' y positions
    minuit,   \* the Minuit object, "none" before it is constructed
    shown,    \* what the notebook has displayed, in order
    calls,    \* how often binned_nll has been evaluated
    last,     \* the last evaluation of binned_nll: its parameters and value
    probe,    \* the parameter vector a run of the objective probes
    margs,    \* the arguments of the calls of model a run makes
    mout,     \* their results
    dataset0  \* history: the globals binned_nll reads, as first handed to it

vars == <<pc, xbin, ybin, counts, xx, yy, minuit, shown, calls, last, probe,
          margs, mout, dataset0>>

data == <<xbin, ybin, counts, xx, yy>>
fit == <<minuit, shown>>
harness == <<calls, last, probe, margs, mout, dataset0>>
globals == [xbin |-> xbin, ybin |-> ybin, counts |-> counts,
            xx |-> xx, yy |-> yy]

None == "none"

(***************************************************************************)
(* The notebook, top to bottom.                                            *)
(***************************************************************************)
Init ==
    /\ pc = "meshgrid"
    /\ xbin = <<>> /\ ybin = <<>> /\ counts = <<>>
    /\ xx = <<>> /\ yy = <<>>
    /\ minuit = None /\ shown = <<>>
    /\ calls = 0 /\ last = None /\ probe = None
    /\ margs = None /\ mout = None
    /\ dataset0 = None

\* xbin, ybin = np.meshgrid(np.arange(x_min, x_max, binsize),
\*                          np.arange(y_min, y_max, binsize))
MakeGrid ==
    /\ pc = "meshgrid"
    /\ LET g == meshgrid(arange(x_min, x_max, binsize),
                         arange(y_min, y_max, binsize))
       IN  xbin' = g.X /\ ybin' = g.Y
    /\ pc' = "poisson"
    /\ UNCHANGED <<counts, xx, yy, fit, harness>>

\* counts = np.random.poisson(model(xbin, ybin, *true_pars))
DrawCounts ==
    /\ pc = "poisson"
    /\ counts' \in poisson(model_grid(xbin, ybin, true_pars))
    /\ pc' = "repeat_xx"
    /\ UNCHANGED <<xbin, ybin, xx, yy, fit, harness>>

\* xx = xbin.repeat(counts.flatten())
RepeatXX ==
    /\ pc = "repeat_xx"
    /\ xx' = repeat(xbin, flatten(counts))
    /\ pc' = "repeat_yy"
    /\ UNCHANGED <<xbin, ybin, counts, yy, fit, harness>>

\* yy = ybin.repeat(counts.flatten())
RepeatYY ==
    /\ pc = "repeat_yy"
    /\ yy' = repeat(ybin, flatten(counts))
    /\ pc' = "jitter_xx"
    /\ UNCHANGED <<xbin, ybin, counts, xx, fit, harness>>

\* xx += np.random.uniform(-0.5, 0.5, xx.size)
JitterXX ==
    /\ pc = "jitter_xx"
    /\ \E u \in uniform(jitter_low, jitter_high, Len(xx)) : xx' = iadd(xx, u)
    /\ pc' = "jitter_yy"
    /\ UNCHANGED <<xbin, ybin, counts, yy, fit, harness>>

\* yy += np.random.uniform(-0.5, 0.5, yy.size)
JitterYY ==
    /\ pc = "jitter_yy"
    /\ \E u \in uniform(jitter_low, jitter_high, Len(yy)) : yy' = iadd(yy, u)
    /\ pc' = "def_binned_nll"
    /\ UNCHANGED <<xbin, ybin, counts, xx, fit, harness>>

\* def binned_nll(...): the definition evaluates nothing.
DefineObjective ==
    /\ pc = "def_binned_nll"
    /\ pc' = "Minuit"
    /\ UNCHANGED <<data, fit, harness>>

\* minuit = iminuit.Minuit(binned_nll, pedantic=False, print_level=10, **pars)
Construct ==
    /\ pc = "Minuit"
    /\ minuit' = Minuit(pars)
    /\ pc' = "print_initial_param"
    /\ UNCHANGED <<data, shown, harness>>

\* minuit.print_initial_param()
PrintInitialParam ==
    /\ pc = "print_initial_param"
    /\ shown' = Append(shown, [what |-> "print_initial_param",
                               table |-> param_table(minuit)])
    /\ pc' = "print_param"
    /\ UNCHANGED <<data, minuit, harness>>

\* minuit.print_param(); the cell's two last lines, #minuit.migrad() and
\* #minuit.hesse(), are comments.
PrintParam ==
    /\ pc = "print_param"
    /\ shown' = Append(shown, [what |-> "print_param",
                               table |-> param_table(minuit)])
    /\ pc' = "cell_8"
    /\ UNCHANGED <<data, minuit, harness>>

\* Cell 8 holds one comment, #migrad = minuit.migrad(ncall=300): it runs
\* nothing.
CommentedMigrad ==
    /\ pc = "cell_8"
    /\ pc' = "report"
    /\ UNCHANGED <<data, fit, harness>>

\* minuit.print_param() and minuit.errors
Report ==
    /\ pc = "report"
    /\ shown' = shown \o <<[what |-> "print_param",
                            table |-> param_table(minuit)],
                           [what |-> "errors", table |-> minuit.errors]>>
    /\ pc' = "fitarg"
    /\ UNCHANGED <<data, minuit, harness>>

\* minuit.fitarg
ShowFitarg ==
    /\ pc = "fitarg"
    /\ shown' = Append(shown, [what |-> "fitarg", table |-> fitarg(minuit)])
    /\ pc' = "done"
    /\ UNCHANGED <<data, minuit, harness>>

Next ==
    \/ MakeGrid
    \/ DrawCounts
    \/ RepeatXX
    \/ RepeatYY
    \/ JitterXX
    \/ JitterYY
    \/ DefineObjective
    \/ Construct
    \/ PrintInitialParam
    \/ PrintParam
    \/ CommentedMigrad
    \/ Report
    \/ ShowFitarg

Spec == Init /\ [][Next]_vars

(***************************************************************************)
(* The objective under evaluation, as a minimizer would call it on a       *)
(* generated dataset: at a probed parameter vector, at the start values,   *)
(* and at the probed vector again.                                         *)
(***************************************************************************)
HalfVals == {Fin(k, 2) : k \in (-PMax)..PMax}

\* The probed parameter vectors of the objective: degenerate ones (r_0 = 0,
\* r_0 < 0, negative sigma_0 or sigma_background) included.
ProbePars ==
    {Pars(Int2F(x_0), Int2F(y_0), s, r, bg) :
        s \in HalfVals, r \in HalfVals, bg \in HalfVals}

NoCall == [p |-> None, ret |-> None]

\* The state once cells 5 and 6 have run: a dataset the generator can leave
\* (here every event jittered by the same draw) and binned_nll defined.
InitObj ==
    /\ pc = "evaluate_probe"
    /\ LET g == meshgrid(arange(x_min, x_max, binsize),
                         arange(y_min, y_max, binsize))
       IN  /\ xbin = g.X /\ ybin = g.Y
           /\ counts \in poisson(model_grid(g.X, g.Y, true_pars))
           /\ xx = iadd(repeat(g.X, flatten(counts)),
                        [i \in 1..SumSeq(flatten(counts)) |->
                            LowSample(jitter_low, jitter_high)])
           /\ yy = iadd(repeat(g.Y, flatten(counts)),
                        [i \in 1..SumSeq(flatten(counts)) |->
                            LowSample(jitter_low, jitter_high)])
    /\ dataset0 = globals
    /\ minuit = None /\ shown = <<>>
    /\ calls = 0 /\ last = NoCall
    /\ probe \in ProbePars
    /\ margs = None /\ mout = None

\* One call binned_nll(*v): the value, and the globals as the call left them.
Evaluate(v) ==
    /\ \E r \in {binned_nll(globals, v)} :
           /\ last' = [p |-> v, ret |-> r.ret]
           /\ xbin' = r.g.xbin /\ ybin' = r.g.ybin /\ counts' = r.g.counts
           /\ xx' = r.g.xx /\ yy' = r.g.yy
    /\ calls' = calls + 1
    /\ UNCHANGED <<fit, probe, margs, mout, dataset0>>

EvaluateProbe ==
    /\ pc = "evaluate_probe"
    /\ Evaluate(probe)
    /\ pc' = "evaluate_start"

EvaluateStart ==
    /\ pc = "evaluate_start"
    /\ Evaluate(true_pars)
    /\ pc' = "evaluate_again"

EvaluateAgain ==
    /\ pc = "evaluate_again"
    /\ Evaluate(probe)
    /\ pc' = "evaluated"

NextObj ==
    \/ EvaluateProbe
    \/ EvaluateStart
    \/ EvaluateAgain

SpecObj == InitObj /\ [][NextObj]_vars

(***************************************************************************)
(* The model function applied: one parameter vector, two points.           *)
(***************************************************************************)
Coords == {Fin(k, 2) : k \in (-CMax)..CMax}
UpperCoords == {Fin(k, 2) : k \in 0..CMax}

\* The parameter vectors model is applied to: the probed ones about either
\* centre, and the notebook's.
ModelPars ==
    {Pars(a, b, s, r, bg) : a \in {Zero, binsize}, b \in {Zero, binsize},
                            s \in HalfVals, r \in HalfVals, bg \in HalfVals}
        \cup {true_pars}

InitModel ==
    /\ pc = "model"
    /\ margs \in [p : ModelPars,
                  x1 : Coords, y1 : UpperCoords,
                  x2 : Coords, y2 : UpperCoords]
    /\ mout = None
    /\ xbin = <<>> /\ ybin = <<>> /\ counts = <<>>
    /\ xx = <<>> /\ yy = <<>>
    /\ minuit = None /\ shown = <<>>
    /\ calls = 0 /\ last = NoCall /\ probe = None
    /\ dataset0 = None

\* model(x1, y1, *p) and model(x2, y2, *p)
ApplyModel ==
    /\ pc = "model"
    /\ mout' = [r1 |-> radius(margs.x1, margs.y1, margs.p),
                m1 |-> model(margs.x1, margs.y1, margs.p),
                r2 |-> radius(margs.x2, margs.y2, margs.p),
                m2 |-> model(margs.x2, margs.y2, margs.p)]
    /\ pc' = "model_done"
    /\ UNCHANGED <<data, fit, calls, last, probe, margs, dataset0>>

NextModel == ApplyModel

SpecModel == InitModel /\ [][NextModel]_vars

(***************************************************************************)
(* Properties of the model function (SpecModel).                           *)
(***************************************************************************)
Applied == pc = "model_done"

\* C6: the model is sigma_background + sigma_0 / (1 + r / r_0) ** 2 with r
\* the distance of (x, y) from (x_0, y_0): for r_0 /= 0 the excess over the
\* background is sigma_0 * r_0 ** 2 / (r_0 + r) ** 2, r is the root of
\* (x - x_0) ** 2 + (y - y_0) ** 2 to the precision carried, and at the
\* centre the value is sigma_background + sigma_0.
C6_ModelFormula ==
    Applied =>
        LET p == margs.p
            dx == FSub(margs.x1, p.x_0)
            dy == FSub(margs.y1, p.y_0)
            r == mout.r1
            up == FAdd(r, Fin(1, Pow2(SqrtBits)))
            d2 == FAdd(FMul(dx, dx), FMul(dy, dy))
            s == FAdd(p.r_0, r)
        IN  /\ FGe(r, Zero) /\ FGe(d2, FMul(r, r)) /\ FGt(FMul(up, up), d2)
            /\ p.r_0 # Zero =>
                   FSub(mout.m1, p.sigma_background)
                       = FDiv(FMul(p.sigma_0, FMul(p.r_0, p.r_0)), FMul(s, s))
            /\ (p.r_0 # Zero /\ margs.x1 = p.x_0 /\ margs.y1 = p.y_0) =>
                   mout.m1 = FAdd(p.sigma_background, p.sigma_0)

\* model applied at the centre and off it, with a scale radius that is not
\* zero and a central density that is not zero.
C6_Witness ==
    /\ Applied
    /\ margs.p.r_0 # Zero /\ margs.p.sigma_0 # Zero
    /\ margs.x1 = margs.p.x_0 /\ margs.y1 = margs.p.y_0
    /\ mout.r1 = Zero /\ FGt(mout.r2, Zero)
    /\ mout.m1 # mout.m2

\* C7 as stated: for sigma_0 > 0 and any r_0 /= 0, of two points the one
\* farther from the centre has the strictly smaller model value.
C7_DecreasingAnyScale ==
    (/\ Applied
     /\ FGt(margs.p.sigma_0, Zero) /\ margs.p.r_0 # Zero
     /\ FGt(mout.r2, mout.r1))
        => FGt(mout.m1, mout.m2)

\* C7, amended: for sigma_0 > 0 and r_0 > 0, of two points the one farther
\* from the centre has the strictly smaller model value.
C7_DecreasingPositiveScale ==
    (/\ Applied
     /\ FGt(margs.p.sigma_0, Zero) /\ FGt(margs.p.r_0, Zero)
     /\ FGt(mout.r2, mout.r1))
        => FGt(mout.m1, mout.m2)

\* Two points at different distances off the centre, sigma_0 > 0, r_0 > 0.
C7_Witness ==
    /\ Applied
    /\ FGt(margs.p.sigma_0, Zero) /\ FGt(margs.p.r_0, Zero)
    /\ FGt(mout.r1, Zero) /\ FGt(mout.r2, mout.r1)
    /\ FGt(mout.m1, mout.m2)

\* C8: for r_0 > 0, sigma_0 >= 0 and sigma_background >= 0 the model value
\* is a number, >= 0 and >= sigma_background; with the notebook's true
\* parameters it is >= 10 everywhere.
C8_NonNegative ==
    Applied =>
        LET p == margs.p
        IN  /\ (/\ FGt(p.r_0, Zero) /\ FGe(p.sigma_0, Zero)
                /\ FGe(p.sigma_background, Zero))
                   => /\ IsFinite(mout.m1)
                      /\ FGe(mout.m1, Zero)
                      /\ FGe(mout.m1, p.sigma_background)
            /\ p = true_pars => FGe(mout.m1, Int2F(10))

\* model applied off the centre with r_0 > 0, sigma_0 > 0 and no
\* background: the value is positive.
C8_Witness ==
    /\ Applied
    /\ FGt(margs.p.r_0, Zero) /\ FGt(margs.p.sigma_0, Zero)
    /\ margs.p.sigma_background = Zero
    /\ FGt(mout.r1, Zero) /\ FGt(mout.m1, Zero)

(***************************************************************************)
(* Properties of the objective (SpecObj).                                  *)
(***************************************************************************)
Cells(a) == {c \in (DOMAIN a) \X (1..Len(a[1])) : TRUE}
At(a, c) == a[c[1]][c[2]]

\* The intensity the last call of binned_nll predicted for cell c.
MuAt(c) == model(At(xbin, c), At(ybin, c), last.p)

\* mu - x * log(mu), carried with LogBits fractional bits.
TermOf(mu, x) ==
    IF FGt(mu, Zero)
    THEN FRoundTo(FSub(mu, FMul(Int2F(x), FLog(mu))), LogBits)
    ELSE One

RECURSIVE SumOver(_)
SumOver(S) ==
    IF S = {} THEN Zero
    ELSE LET c == CHOOSE e \in S : TRUE
         IN  FAdd(TermOf(MuAt(c), At(counts, c)), SumOver(S \ {c}))

\* C1: when every cell's intensity mu is > 0 or <= 0, binned_nll returns the
\* sum over the cells of mu - x * log(mu) where mu > 0 and of 1 where
\* mu <= 0, x the cell's count.
C1_SumOfTerms ==
    (calls >= 1 /\ \A c \in Cells(xbin) : MuAt(c).k # "nan")
        => last.ret = SumOver(Cells(xbin))

\* An evaluation whose grid holds both a counted cell of intensity > 0 and a
\* cell of intensity <= 0, every intensity a finite number.
C1_Witness ==
    /\ calls >= 1
    /\ \A c \in Cells(xbin) : IsFinite(MuAt(c))
    /\ \E c \in Cells(xbin) : FGt(MuAt(c), Zero) /\ At(counts, c) > 0
    /\ \E c \in Cells(xbin) : ~FGt(MuAt(c), Zero)
    /\ IsFinite(last.ret)

\* C2 as stated: whatever parameters binned_nll is called with, its value is
\* a finite number.
C2_AlwaysFinite == calls >= 1 => IsFinite(last.ret)

cell_of(i) ==
    LET reps == flatten(counts)
    IN  CHOOSE c \in DOMAIN reps :
            /\ SumSeq(SubSeq(reps, 1, c - 1)) < i
            /\ i <= SumSeq(SubSeq(reps, 1, c))

Jittered == pc \notin {"meshgrid", "poisson", "repeat_xx", "repeat_yy",
                       "jitter_xx", "jitter_yy"}

Within(a, b, h) == FGe(h, FSub(a, b)) /\ FGe(FSub(a, b), FNeg(h))

\* C4 as stated: every event lies within binsize / 2, in x and in y, of the
\* coordinate of the cell it was repeated from.
C4_JitterWithinHalfBin ==
    Jittered =>
        \A i \in DOMAIN xx :
            /\ Within(xx[i], flatten(xbin)[cell_of(i)],
                      FDiv(binsize, Int2F(2)))
            /\ Within(yy[i], flatten(ybin)[cell_of(i)],
                      FDiv(binsize, Int2F(2)))

\* C5 as stated: by the time the result is reported the objective has been
\* evaluated at least once.
C5_EvaluatedBeforeReport == pc \in {"fitarg", "done"} => calls >= 1

\* C9: counts has the grid's shape and holds naturals; once both repeats
\* have run xx and yy each hold sum(counts) entries, and before the jitter
\* the indices i with (xx[i], yy[i]) the coordinates of a cell number that
\* cell's count; after the jitter event i is still the coordinates of its
\* cell displaced by two of the draws.
C9_BinnedMatchesUnbinned ==
    /\ pc \notin {"meshgrid", "poisson"} =>
           /\ DOMAIN counts = DOMAIN xbin
           /\ \A c \in Cells(xbin) : At(counts, c) \in Nat
    /\ pc \notin {"meshgrid", "poisson", "repeat_xx", "repeat_yy"} =>
           /\ Len(xx) = SumSeq(flatten(counts))
           /\ Len(yy) = SumSeq(flatten(counts))
    /\ pc = "jitter_xx" =>
           \A c \in Cells(xbin) :
               Cardinality({i \in DOMAIN xx :
                               /\ xx[i] = At(xbin, c)
                               /\ yy[i] = At(ybin, c)}) = At(counts, c)
    /\ Jittered =>
           \A i \in DOMAIN xx :
               /\ FSub(xx[i], flatten(xbin)[cell_of(i)])
                      \in UniformSamples(jitter_low, jitter_high)
               /\ FSub(yy[i], flatten(ybin)[cell_of(i)])
                      \in UniformSamples(jitter_low, jitter_high)

\* A dataset generated in full, with two events in one cell and a cell
\* without events.
C9_Witness ==
    /\ Jittered
    /\ \E c \in Cells(counts) : At(counts, c) = 2
    /\ \E c \in Cells(counts) : At(counts, c) = 0
    /\ Len(xx) = 2 /\ xx[1] # xx[2]

\* C10: the minimizer is configured with exactly r_0 and sigma_background
\* fixed and with no limit on any parameter, and the two fixed parameters
\* hold their start values, 10 and 10, from the construction to the end of
\* the notebook, in the object and in every table it displays.
Constructed == pc \notin {"meshgrid", "poisson", "repeat_xx", "repeat_yy",
                          "jitter_xx", "jitter_yy", "def_binned_nll",
                          "Minuit"}

=============================================================================
